---- MODULE Spec2Model ----
(***************************************************************************)
(* flask_whoosh: a Flask extension giving request handlers a pooled Whoosh *)
(* searcher and an AsyncWriter.  The model covers WhooshManager (index     *)
(* creation, the LIFO searcher pool) and Whoosh (the lazily created        *)
(* manager on current_app, the per-context memoized properties, teardown). *)
(* Requests run on concurrent worker threads; a step of the model is one   *)
(* access to state shared between threads.                                 *)
(*                                                                         *)
(* Spec        requests against an initialised application, collaborators  *)
(*             (the whoosh index) answering every call                     *)
(* SpecFair    Spec with fair scheduling of the threads inside the         *)
(*             extension                                                   *)
(* SpecFail    Spec plus index.searcher() / refresh() raising inside       *)
(*             get_searcher                                                *)
(* SpecConfig  init_app applied to applications of any configuration       *)
(***************************************************************************)
EXTENDS Integers, Sequences, FiniteSets, TLC

\* ---------------------------------------------------------------- bounds
NReq == 2               \* concurrent requests (one worker thread each)
MaxSearchers == 2       \* largest configured WHOOSH_SEARCHER_MAX explored
MaxCreate == 2          \* cap on per-request creation counters
MaxInitApp == 2         \* cap on init_app calls on one application

Requests == 1..NReq

\* ---------------------------------------------------------------- values
\* A wrapper {'searcher': None} holds NoneSearcher; a live whoosh Searcher is
\* an object identity together with the index generation its reader was
\* opened on.  The identity is the thread that constructed the object and
\* the number of the construction on that thread.
NoneSearcher == [id |-> <<0, 0>>, gen |-> 0]

NoWriter == 0

\* ---------------------------------------------------------------- filesystem
\* State of WHOOSH_INDEX_ROOT: kind of the path, whether the directory holds
\* entries that are not the named index, whether it holds a valid index
\* under WHOOSH_INDEX_NAME, and that index' latest committed generation.  An
\* index found on disk at start-up holds one committed document (generation
\* 1); a newly created index is empty (generation 0).  The roots explored
\* are the five init_index tells apart: absent, a file, an empty directory,
\* a directory of other entries, a directory that is an index.
AbsentPath == [kind |-> "absent", other |-> FALSE, idx |-> FALSE, gen |-> 0]

FilePath == [kind |-> "file", other |-> FALSE, idx |-> FALSE, gen |-> 0]

DirPaths ==
    { [kind |-> "dir", other |-> o, idx |-> FALSE, gen |-> 0] : o \in BOOLEAN }
    \cup { [kind |-> "dir", other |-> FALSE, idx |-> TRUE, gen |-> 1] }

RootStates == {AbsentPath, FilePath} \cup DirPaths

path_exists(f) == f.kind # "absent"

path_isdir(f) == f.kind = "dir"

listdir_nonempty(f) == f.kind = "dir" /\ (f.other \/ f.idx)

exists_in(f) == f.kind = "dir" /\ f.idx

\* whoosh create_in: removes the files of the named index and writes a new
\* table of contents at generation 0; other entries are left alone.
create_in(f) == [kind |-> "dir", other |-> f.other, idx |-> TRUE, gen |-> 0]

makedirs(f) == [f EXCEPT !.kind = "dir"]

\* init_index with the third check ignoring the clear flag.
init_index_raises_clear_ignored(f, clear) ==
    IF path_exists(f) /\ ~path_isdir(f) THEN TRUE
    ELSE IF path_isdir(f) /\ ~exists_in(f) /\ listdir_nonempty(f) THEN TRUE
    ELSE IF path_isdir(f) /\ exists_in(f) THEN TRUE
    ELSE FALSE

\* WhooshManager.init_index: the three checks in order, then makedirs and
\* create_in.  Returns the outcome and the filesystem state left behind.
init_index_raises(f, clear) ==
    IF path_exists(f) /\ ~path_isdir(f) THEN TRUE
    ELSE IF path_isdir(f) /\ ~exists_in(f) /\ listdir_nonempty(f) THEN TRUE
    ELSE IF path_isdir(f) /\ exists_in(f) /\ ~clear THEN TRUE
    ELSE FALSE

\* The raise statement init_index reaches: 1 (line 136), 2 (line 142),
\* 3 (line 149), or 0 when every check passes.
init_index_check(f, clear) ==
    IF path_exists(f) /\ ~path_isdir(f) THEN 1
    ELSE IF path_isdir(f) /\ ~exists_in(f) /\ listdir_nonempty(f) THEN 2
    ELSE IF path_isdir(f) /\ exists_in(f) /\ ~clear THEN 3
    ELSE 0

\* init_index creating the index before the third check.
init_index_create_first(f, clear) ==
    IF init_index_check(f, clear) \in {1, 2}
    THEN [result |-> "DirectoryAlreadyExists", fs |-> f,
          check |-> init_index_check(f, clear)]
    ELSE LET g == IF ~path_exists(f) THEN makedirs(f) ELSE f
         IN  [result |-> IF init_index_raises(f, clear)
                         THEN "DirectoryAlreadyExists" ELSE "ok",
              fs |-> create_in(g), check |-> init_index_check(f, clear)]

init_index(f, clear) ==
    IF init_index_raises(f, clear)
    THEN [result |-> "DirectoryAlreadyExists", fs |-> f,
          check |-> init_index_check(f, clear)]
    ELSE LET g == IF ~path_exists(f) THEN makedirs(f) ELSE f
         IN  [result |-> "ok", fs |-> create_in(g), check |-> 0]

\* ---------------------------------------------------------------- pool
\* WhooshManager._initialize_searcher_pool: a LifoQueue of search_max
\* wrappers, none of them holding a searcher.  The top of the stack is the
\* last element of the sequence.
initialize_searcher_pool(search_max) == [i \in 1..search_max |-> NoneSearcher]

WhooshManager(search_max) ==
    [search_max |-> search_max, search_pool |-> initialize_searcher_pool(search_max)]

\* LifoQueue.get on a non-empty queue: the popped wrapper and the rest.
pool_top(pool) == pool[Len(pool)]

\* A pop that removes the oldest wrapper instead of the one it returns.
pool_rest_bottom(pool) == Tail(pool)

pool_rest(pool) == SubSeq(pool, 1, Len(pool) - 1)

\* index.searcher(): a new Searcher on the latest generation.
index_searcher(latest, nid) == [id |-> nid, gen |-> latest]

\* Searcher.refresh(): self when up to date, else a new Searcher on the
\* latest generation.
refresh(s, latest, nid) == IF s.gen = latest THEN s ELSE [id |-> nid, gen |-> latest]

\* get_searcher without the refresh.
get_searcher_norefresh(wrapper, latest, nid) ==
    IF wrapper = NoneSearcher THEN index_searcher(latest, nid) ELSE wrapper

\* WhooshManager.get_searcher after the pop: materialize, refresh, return.
get_searcher(wrapper, latest, nid) ==
    LET s == IF wrapper = NoneSearcher THEN index_searcher(latest, nid) ELSE wrapper
    IN  refresh(s, latest, nid)

\* A put that drops the searcher instead of queueing it.
put_searcher_drop(pool, searcher) == pool

\* WhooshManager.put_searcher: push a new wrapper around the searcher.
put_searcher(pool, searcher) == Append(pool, searcher)

\* ---------------------------------------------------------------- application
\* app.config maps the keys that are set to their values; an application
\* object also says whether its Flask has teardown_appcontext and counts the
\* functions registered on each teardown hook.
DefaultSearcherMax == 10

\* dict.setdefault: the key keeps its value when set, else gets the default.
setdefault(config, key, value) ==
    IF key \in DOMAIN config THEN config ELSE config @@ (key :> value)

\* Whoosh.init_app: three defaults, then Whoosh.teardown is registered on
\* the hook this Flask offers.
init_app(a) ==
    LET c1 == setdefault(a.config, "WHOOSH_INDEX_ROOT", "/tmp")
        c2 == setdefault(c1, "WHOOSH_INDEX_NAME", "")
        c3 == setdefault(c2, "WHOOSH_SEARCHER_MAX", DefaultSearcherMax)
    IN  IF a.has_teardown_appcontext
        THEN [a EXCEPT !.config = c3, !.teardown_appcontext = @ + 1]
        ELSE [a EXCEPT !.config = c3, !.teardown_request = @ + 1]

\* A Flask application as constructed, before any extension touched it.
Flask(config, has_teardown_appcontext) ==
    [config |-> config, has_teardown_appcontext |-> has_teardown_appcontext,
     teardown_appcontext |-> 0, teardown_request |-> 0]

\* ---------------------------------------------------------------- state
VARIABLES
    fs,             \* state of WHOOSH_INDEX_ROOT on disk
    lastInit,       \* the init_index call just made: arguments, prior state,
                    \* outcome, raise statement reached
    searcher_max,   \* app.config['WHOOSH_SEARCHER_MAX'] (0 while the key is absent)
    whoosh,         \* current_app.whoosh: 0 = attribute absent, else a manager
    managers,       \* every WhooshManager constructed so far
    pc,             \* position of each request's worker thread
    op,             \* property being read while the manager is set up
    tgt,            \* manager on which the pending get/put call was made
    ctx,            \* attributes of the request's context (stack.top)
    wstatus,        \* status of the AsyncWriter the request built, if any
    seen,           \* the property return just made: to whom, what, from where
    stats,          \* per request: pool gets, objects built, first values, origin pool
    bare,           \* teardown has been called with no context on the stack
    app,            \* the Flask application: config keys, registered teardowns
    released,       \* the searchers put back and not taken since, oldest first
    usage           \* index.searcher() calls so far; most searchers held at once

vars == <<fs, lastInit, searcher_max, whoosh, managers, pc, op, tgt, ctx,
          wstatus, seen, stats, bare, app, released, usage>>

NoUsage == [views |-> 0, peak |-> 0]

NoInit == [called |-> FALSE, clear |-> FALSE, before |-> AbsentPath, result |-> "none",
           check |-> 0]

NewCtx == [whoosh_searcher |-> NoneSearcher, whoosh_writer |-> NoWriter]

NoReturn == [req |-> 0, prop |-> "none", cached |-> FALSE, searcher |-> NoneSearcher,
             writer |-> NoWriter, popped |-> NoneSearcher]

NewStats == [gets |-> 0, built |-> 0, created |-> 0, origin |-> 0,
             s_first |-> NoneSearcher, w_first |-> NoWriter]

Init ==
    /\ fs \in RootStates
    /\ lastInit = NoInit
    /\ searcher_max \in 1..MaxSearchers
    /\ whoosh = 0
    /\ managers = <<>>
    /\ pc = [r \in Requests |-> "idle"]
    /\ op = [r \in Requests |-> "none"]
    /\ tgt = [r \in Requests |-> 0]
    /\ ctx = [r \in Requests |-> NewCtx]
    /\ wstatus = [r \in Requests |-> "none"]
    /\ seen = NoReturn
    /\ stats = [r \in Requests |-> NewStats]
    /\ bare = FALSE
    /\ app = init_app(Flask("WHOOSH_SEARCHER_MAX" :> searcher_max, TRUE))
    /\ released = <<>>
    /\ usage = NoUsage

\* ---------------------------------------------------------------- helpers
\* hasattr(current_app, 'whoosh')
has_whoosh(w) == w # 0

\* The searcher property without the hasattr test: every access acquires.
has_whoosh_searcher_never(c) == FALSE

\* hasattr(ctx, 'whoosh_searcher') in the searcher property
has_whoosh_searcher(c) == c.whoosh_searcher # NoneSearcher

\* The writer property without the hasattr test: every access builds.
has_whoosh_writer_never(c) == FALSE

\* hasattr(ctx, 'whoosh_writer') in the writer property
has_whoosh_writer(c) == c.whoosh_writer # NoWriter

\* Teardown without the hasattr test: it always puts.
teardown_has_searcher_always(c) == TRUE

\* hasattr(ctx, 'whoosh_searcher') in teardown
teardown_has_searcher(c) == c.whoosh_searcher # NoneSearcher

\* A teardown that cancels a writer left open.
writer_after_teardown_cancel(status) == IF status = "open" THEN "cancelled" ELSE status

\* Whoosh.teardown looks at ctx.whoosh_searcher only and makes no call on
\* ctx.whoosh_writer: the status of the request's writer when it returns.
writer_after_teardown(status) == status

\* LifoQueue.get returns only from a non-empty queue, LifoQueue.put only
\* into a queue below maxsize; otherwise the calling thread waits.
can_get(m) == Len(m.search_pool) > 0

can_put(m) == Len(m.search_pool) < m.search_max

\* ---------------------------------------------------------------- actions
\* Whoosh.init_index -> WhooshManager.init_index, called while the
\* application is being set up (no request has started yet).
InitIndex(clear) ==
    /\ \A r \in Requests : pc[r] = "idle"
    /\ LET out == init_index(fs, clear)
       IN  /\ fs' = out.fs
           /\ lastInit' = [called |-> TRUE, clear |-> clear, before |-> fs,
                           result |-> out.result, check |-> out.check]
    /\ UNCHANGED <<searcher_max, app, usage, released, whoosh, managers, pc, op, tgt, ctx, wstatus,
                   seen, stats, bare>>

\* The framework pushes a context for the request and runs its handler.
Start(r) ==
    /\ pc[r] = "idle"
    /\ pc' = [pc EXCEPT ![r] = "run"]
    /\ lastInit' = NoInit
    /\ seen' = NoReturn
    /\ UNCHANGED <<fs, searcher_max, app, usage, released, whoosh, managers, op, tgt, ctx, wstatus,
                   stats, bare>>

\* Whoosh.searcher from the ctx lookup on: return the cached searcher, or
\* call get_searcher on the manager current_app.whoosh names at this moment.
SearcherLookup(r) ==
    IF has_whoosh_searcher(ctx[r])
    THEN /\ seen' = [NoReturn EXCEPT !.req = r, !.prop = "searcher", !.cached = TRUE,
                                     !.searcher = ctx[r].whoosh_searcher]
         /\ pc' = [pc EXCEPT ![r] = "run"]
         /\ tgt' = tgt
    ELSE /\ tgt' = [tgt EXCEPT ![r] = whoosh]
         /\ pc' = [pc EXCEPT ![r] = "get"]
         /\ seen' = NoReturn

\* Whoosh.writer from the ctx lookup on: return the cached writer, or build
\* an AsyncWriter on the manager's index and cache it.
WriterLookup(r) ==
    /\ IF has_whoosh_writer(ctx[r])
       THEN /\ seen' = [NoReturn EXCEPT !.req = r, !.prop = "writer", !.cached = TRUE,
                                        !.writer = ctx[r].whoosh_writer]
            /\ UNCHANGED <<ctx, wstatus, stats>>
       ELSE /\ stats[r].created < MaxCreate
            /\ ctx' = [ctx EXCEPT ![r].whoosh_writer = stats[r].created + 1]
            /\ wstatus' = [wstatus EXCEPT ![r] = "open"]
            /\ seen' = [NoReturn EXCEPT !.req = r, !.prop = "writer",
                                        !.writer = stats[r].created + 1]
            /\ stats' = [stats EXCEPT ![r].created = @ + 1,
                                      ![r].w_first = IF @ = NoWriter
                                                     THEN stats[r].created + 1 ELSE @]
    /\ pc' = [pc EXCEPT ![r] = "run"]

\* The handler reads whoosh.searcher.  _setup_whoosh finds the manager on
\* current_app, or the thread goes on to build one.
SearcherProperty(r) ==
    /\ pc[r] = "run"
    /\ IF has_whoosh(whoosh)
       THEN /\ SearcherLookup(r)
            /\ op' = op
       ELSE /\ pc' = [pc EXCEPT ![r] = "create"]
            /\ op' = [op EXCEPT ![r] = "searcher"]
            /\ seen' = NoReturn
            /\ tgt' = tgt
    /\ UNCHANGED <<fs, lastInit, searcher_max, app, usage, released, whoosh, managers, ctx, wstatus,
                   stats, bare>>

\* The handler reads whoosh.writer.
WriterProperty(r) ==
    /\ pc[r] = "run"
    /\ IF has_whoosh(whoosh)
       THEN /\ WriterLookup(r)
            /\ op' = op
       ELSE /\ pc' = [pc EXCEPT ![r] = "create"]
            /\ op' = [op EXCEPT ![r] = "writer"]
            /\ seen' = NoReturn
            /\ UNCHANGED <<ctx, wstatus, stats>>
    /\ UNCHANGED <<fs, lastInit, searcher_max, app, usage, released, whoosh, managers, tgt, bare>>

\* _setup_whoosh after hasattr found no manager: open the index, build a
\* WhooshManager and assign it to current_app.whoosh.  open_dir raises when
\* the root holds no index; the error propagates out of the property.
CreateManager(r) ==
    /\ pc[r] = "create"
    /\ IF exists_in(fs)
       THEN /\ managers' = Append(managers, WhooshManager(searcher_max))
            /\ whoosh' = Len(managers) + 1
            /\ pc' = [pc EXCEPT ![r] = "ctx"]
            /\ op' = op
       ELSE /\ pc' = [pc EXCEPT ![r] = "run"]
            /\ op' = [op EXCEPT ![r] = "none"]
            /\ UNCHANGED <<managers, whoosh>>
    /\ seen' = NoReturn
    /\ UNCHANGED <<fs, lastInit, searcher_max, app, usage, released, tgt, ctx, wstatus, stats, bare>>

\* The property continues after _setup_whoosh built the manager.
AfterSetup(r) ==
    /\ pc[r] = "ctx"
    /\ IF op[r] = "searcher"
       THEN /\ SearcherLookup(r)
            /\ UNCHANGED <<ctx, wstatus, stats>>
       ELSE /\ WriterLookup(r)
            /\ tgt' = tgt
    /\ op' = [op EXCEPT ![r] = "none"]
    /\ UNCHANGED <<fs, lastInit, searcher_max, app, usage, released, whoosh, managers, bare>>

\* WhooshManager.get_searcher: pop a wrapper (waiting while the pool is
\* empty), materialize and refresh its searcher; the property stores the
\* result on the context and returns it.
PoolGet(r) ==
    /\ pc[r] = "get"
    /\ can_get(managers[tgt[r]])
    /\ stats[r].gets < MaxCreate
    /\ LET m == managers[tgt[r]]
           nid == <<r, stats[r].built + 1>>
           s == get_searcher(pool_top(m.search_pool), fs.gen, nid)
       IN  /\ managers' = [managers EXCEPT ![tgt[r]].search_pool = pool_rest(@)]
           /\ ctx' = [ctx EXCEPT ![r].whoosh_searcher = s]
           /\ seen' = [NoReturn EXCEPT !.req = r, !.prop = "searcher", !.searcher = s,
                                       !.popped = pool_top(m.search_pool)]
           /\ stats' = [stats EXCEPT ![r].gets = @ + 1,
                                     ![r].built = IF s.id = nid THEN @ + 1 ELSE @,
                                     ![r].origin = tgt[r],
                                     ![r].s_first = IF @ = NoneSearcher THEN s ELSE @]
           /\ released' = SelectSeq(released, LAMBDA x : x # pool_top(m.search_pool))
           /\ usage' = [views |-> IF pool_top(m.search_pool) = NoneSearcher
                                  THEN usage.views + 1 ELSE usage.views,
                        peak |-> LET held == Cardinality({q \in Requests :
                                                 q = r \/ has_whoosh_searcher(ctx[q])})
                                 IN  IF held > usage.peak THEN held ELSE usage.peak]
    /\ pc' = [pc EXCEPT ![r] = "run"]
    /\ tgt' = [tgt EXCEPT ![r] = 0]
    /\ UNCHANGED <<fs, lastInit, searcher_max, app, whoosh, op, wstatus, bare>>

\* The handler commits the documents it added through its writer: the
\* index moves to a new generation.
Commit(r) ==
    /\ pc[r] = "run"
    /\ wstatus[r] = "open"
    /\ wstatus' = [wstatus EXCEPT ![r] = "committed"]
    /\ fs' = [fs EXCEPT !.gen = @ + 1]
    /\ seen' = NoReturn
    /\ UNCHANGED <<lastInit, searcher_max, app, usage, released, whoosh, managers, pc, op, tgt, ctx,
                   stats, bare>>

\* Whoosh.teardown, called by the framework when the request ends, with the
\* exception that ended it or None (the function does not look at it): put
\* the context's searcher back through the manager current_app.whoosh names
\* at this moment.  With nothing to put, teardown returns and the framework
\* pops the context, which ends the life of its attributes; the AsyncWriter
\* the context referred to stays as the handler left it.
Teardown(r, exception) ==
    /\ pc[r] = "run"
    /\ IF teardown_has_searcher(ctx[r])
       THEN /\ tgt' = [tgt EXCEPT ![r] = whoosh]
            /\ pc' = [pc EXCEPT ![r] = "put"]
            /\ UNCHANGED <<ctx, wstatus, stats>>
       ELSE /\ tgt' = tgt
            /\ pc' = [pc EXCEPT ![r] = "done"]
            /\ ctx' = [ctx EXCEPT ![r] = NewCtx]
            /\ wstatus' = [wstatus EXCEPT ![r] = writer_after_teardown(@)]
            /\ stats' = [stats EXCEPT ![r] = NewStats]
    /\ seen' = NoReturn
    /\ UNCHANGED <<fs, lastInit, searcher_max, app, usage, released, whoosh, managers, op, bare>>

\* WhooshManager.put_searcher: LifoQueue.put waits while the queue is full.
\* Teardown then returns and the framework pops the context.
PoolPut(r) ==
    /\ pc[r] = "put"
    /\ can_put(managers[tgt[r]])
    /\ managers' = [managers EXCEPT ![tgt[r]].search_pool =
                        put_searcher(@, ctx[r].whoosh_searcher)]
    /\ stats' = [stats EXCEPT ![r] = NewStats]
    /\ pc' = [pc EXCEPT ![r] = "done"]
    /\ tgt' = [tgt EXCEPT ![r] = 0]
    /\ ctx' = [ctx EXCEPT ![r] = NewCtx]
    /\ wstatus' = [wstatus EXCEPT ![r] = writer_after_teardown(@)]
    /\ seen' = NoReturn
    /\ released' = Append(released, ctx[r].whoosh_searcher)
    /\ UNCHANGED <<fs, lastInit, searcher_max, app, usage, whoosh, op, bare>>

\* Whoosh.teardown invoked with no context on the stack (stack.top is
\* None): hasattr(None, 'whoosh_searcher') is false and nothing is put.  The
\* call reads and writes no shared state, so its place in the interleaving
\* is immaterial; it is taken once the requests are over.
TeardownNoContext ==
    /\ \A r \in Requests : pc[r] = "done"
    /\ ~bare
    /\ bare' = TRUE
    /\ seen' = NoReturn
    /\ UNCHANGED <<fs, lastInit, searcher_max, app, usage, released, whoosh, managers, pc, op, tgt, ctx,
                   wstatus, stats>>

Next ==
    \/ \E clear \in BOOLEAN : InitIndex(clear)
    \/ \E r \in Requests : Start(r)
    \/ \E r \in Requests : SearcherProperty(r)
    \/ \E r \in Requests : WriterProperty(r)
    \/ \E r \in Requests : CreateManager(r)
    \/ \E r \in Requests : AfterSetup(r)
    \/ \E r \in Requests : PoolGet(r)
    \/ \E r \in Requests : Commit(r)
    \/ \E r \in Requests, exception \in BOOLEAN : Teardown(r, exception)
    \/ \E r \in Requests : PoolPut(r)
    \/ TeardownNoContext

Spec == Init /\ [][Next]_vars

\* Fair scheduling of the worker threads: a thread inside the extension's
\* code (building the manager, going on after set-up, inside LifoQueue.get
\* or LifoQueue.put) takes its next step once that step stays possible.
\* queue.Queue wakes a waiting getter on every put and a waiting putter on
\* every get.  When a handler returns is the handler's own business and is
\* not scheduled here.
Fairness ==
    \A r \in Requests :
        /\ WF_vars(CreateManager(r))
        /\ WF_vars(AfterSetup(r))
        /\ WF_vars(PoolGet(r))
        /\ WF_vars(PoolPut(r))

SpecFair == Spec /\ Fairness

\* ---------------------------------------------------------------- failures
\* WhooshManager.get_searcher when the collaborator fails: the wrapper has
\* been popped (line 176) and index.searcher() or refresh() raises (lines
\* 178-179), for instance because the index files are gone or unreadable.
\* Nothing catches the error: the wrapper is dropped with the frame, the
\* assignment to ctx.whoosh_searcher (line 84) does not happen, and the
\* error reaches the handler.
PoolGetFails(r) ==
    /\ pc[r] = "get"
    /\ can_get(managers[tgt[r]])
    /\ stats[r].gets < MaxCreate
    /\ LET m == managers[tgt[r]]
       IN  /\ managers' = [managers EXCEPT ![tgt[r]].search_pool = pool_rest(@)]
           /\ seen' = [NoReturn EXCEPT !.req = r, !.prop = "error",
                                       !.popped = pool_top(m.search_pool)]
           /\ released' = SelectSeq(released, LAMBDA x : x # pool_top(m.search_pool))
    /\ stats' = [stats EXCEPT ![r].gets = @ + 1]
    /\ pc' = [pc EXCEPT ![r] = "run"]
    /\ tgt' = [tgt EXCEPT ![r] = 0]
    /\ UNCHANGED <<fs, lastInit, searcher_max, app, usage, whoosh, op, ctx, wstatus, bare>>

NextFail ==
    \/ Next
    \/ \E r \in Requests : PoolGetFails(r)

SpecFail == Init /\ [][NextFail]_vars

\* ---------------------------------------------------------------- set-up
\* The configurations an application may carry when the extension is
\* attached: each key the extension or its tests name is absent or set.
OptionalKey(key, values) == {<<>>} \cup {key :> v : v \in values}

UserConfigs ==
    { r @@ n @@ x @@ m :
        r \in OptionalKey("WHOOSH_INDEX_ROOT", {"/srv/index", "/tmp/whoosh"}),
        n \in OptionalKey("WHOOSH_INDEX_NAME", {"posts"}),
        x \in OptionalKey("WHOOSH_SEARCHER_MAX", 1..MaxSearchers),
        m \in OptionalKey("WHOOSH_SEARCHER_MIN", {2}) }

\* The application is constructed with some configuration; nothing of the
\* extension exists yet.
InitConfig ==
    /\ \E c \in UserConfigs, h \in BOOLEAN :
           /\ app = Flask(c, h)
           /\ searcher_max = IF "WHOOSH_SEARCHER_MAX" \in DOMAIN c
                             THEN c["WHOOSH_SEARCHER_MAX"] ELSE 0
    /\ fs \in RootStates
    /\ lastInit = NoInit
    /\ whoosh = 0
    /\ managers = <<>>
    /\ pc = [r \in Requests |-> "idle"]
    /\ op = [r \in Requests |-> "none"]
    /\ tgt = [r \in Requests |-> 0]
    /\ ctx = [r \in Requests |-> NewCtx]
    /\ wstatus = [r \in Requests |-> "none"]
    /\ seen = NoReturn
    /\ stats = [r \in Requests |-> NewStats]
    /\ bare = FALSE
    /\ released = <<>>
    /\ usage = NoUsage

\* Whoosh(app) or whoosh.init_app(app).
InitApp ==
    /\ app.teardown_appcontext + app.teardown_request < MaxInitApp
    /\ app' = init_app(app)
    /\ searcher_max' = app'.config["WHOOSH_SEARCHER_MAX"]
    /\ UNCHANGED <<fs, lastInit, whoosh, managers, pc, op, tgt, ctx, wstatus,
                   seen, stats, bare, released, usage>>

NextConfig == InitApp

SpecConfig == InitConfig /\ [][NextConfig]_vars

\* ---------------------------------------------------------------- claims
\* A request is live from the push of its context to the end of teardown;
\* it holds a searcher from the return of get_searcher to the return of
\* put_searcher.
Live(r) == pc[r] \in {"run", "create", "ctx", "get", "put"}

Holds(r) == Live(r) /\ ctx[r].whoosh_searcher # NoneSearcher

Holders == {r \in Requests : Holds(r)}

CheckedOutFrom(p) == {r \in Holders : stats[r].origin = p}

Pools == 1..Len(managers)

\* C1: for every pool built with maximum M, the slots in the pool plus the
\* slots checked out of it number M in every reachable state, and M is the
\* configured maximum throughout.
C1_PoolConservation ==
    \A p \in Pools :
        /\ managers[p].search_max = searcher_max
        /\ Len(managers[p].search_pool) + Cardinality(CheckedOutFrom(p))
               = managers[p].search_max

\* C2: the number of requests of the application that hold a searcher at
\* the same time never exceeds the configured maximum.
C2_CapacityBound == Cardinality(Holders) <= searcher_max

\* C3: a request performs at most one pool get; the searcher property
\* returns the instance cached by the first access on every later access,
\* and a cached return follows exactly one get.
C3_SearcherMemoized ==
    \A r \in Requests :
        /\ stats[r].gets <= 1
        /\ pc[r] = "get" => ctx[r].whoosh_searcher = NoneSearcher
        /\ (seen.req = r /\ seen.prop = "searcher") =>
               /\ seen.searcher = stats[r].s_first
               /\ seen.searcher = ctx[r].whoosh_searcher
               /\ stats[r].gets = 1

\* C3 witness: a later access has returned the cached searcher.
C3_Witness ==
    \E r \in Requests :
        /\ seen.req = r
        /\ seen.prop = "searcher"
        /\ seen.cached
        /\ seen.searcher = stats[r].s_first
        /\ stats[r].gets = 1

\* C4: teardown of a request that acquired a searcher puts that searcher
\* back, once, on the pool it was taken from: the get shrinks that pool by
\* one slot and the put restores its size, whether or not the request ended
\* with an exception.
C4_ReleaseAtRequestEnd ==
    [][\A r \in Requests :
          /\ (pc[r] = "get" /\ pc'[r] = "run") =>
                 Len(managers'[tgt[r]].search_pool)
                     = Len(managers[tgt[r]].search_pool) - 1
          /\ (pc[r] = "put" /\ pc'[r] = "done") =>
                 /\ managers'[stats[r].origin].search_pool
                        = Append(managers[stats[r].origin].search_pool,
                                 ctx[r].whoosh_searcher)]_vars

\* C5: a teardown of a request whose context has no searcher (the request
\* read nothing, or only the writer), and a teardown with no context on the
\* stack, finish at once and leave every pool and the manager as they were.
C5_TeardownWithoutSearcher ==
    /\ [](\A r \in Requests : pc[r] = "put" => ctx[r].whoosh_searcher # NoneSearcher)
    /\ [][\A r \in Requests :
             /\ (pc[r] = "run" /\ pc'[r] \in {"put", "done"}
                     /\ ctx[r].whoosh_searcher = NoneSearcher) =>
                    (pc'[r] = "done" /\ managers' = managers /\ whoosh' = whoosh)
             /\ (~bare /\ bare') => (managers' = managers /\ whoosh' = whoosh)]_vars

\* C5 witness: every request has been torn down and a context-free
\* teardown followed; a manager was built, yet its pool is as constructed,
\* so the requests read the writer only.
C5_Witness ==
    /\ \A r \in Requests : pc[r] = "done"
    /\ bare
    /\ has_whoosh(whoosh)
    /\ managers[whoosh].search_pool = initialize_searcher_pool(searcher_max)

\* C6: a get returns a searcher only while fewer than maximum searchers are
\* checked out; with every slot checked out it waits for a release.
C6_BlockingAcquire ==
    [][\A r \in Requests :
          (pc[r] = "get" /\ pc'[r] = "run") =>
              Cardinality(Holders) < searcher_max]_vars

\* C7: the searcher a get returns is materialized and is on the latest
\* committed generation of the index at the moment the get returns.
C7_RefreshOnCheckout ==
    [][\A r \in Requests :
          (pc[r] = "get" /\ pc'[r] = "run") =>
              /\ ctx'[r].whoosh_searcher # NoneSearcher
              /\ ctx'[r].whoosh_searcher.gen = fs'.gen]_vars

\* C7 witness: after a commit, a request took the stale searcher another
\* request had released and got it refreshed to the committed generation.
C7_Witness ==
    \E r, q \in Requests :
        /\ r # q
        /\ seen.req = r
        /\ seen.prop = "searcher"
        /\ ~seen.cached
        /\ seen.searcher.gen = fs.gen
        /\ seen.searcher.id = <<r, 1>>
        /\ pc[q] = "done"
        /\ seen.popped.id = <<q, 1>>
        /\ seen.popped.gen < fs.gen

\* The five states of the root path the decision table distinguishes.
RootClass(f) ==
    IF f.kind = "absent" THEN "absent"
    ELSE IF f.kind = "file" THEN "file"
    ELSE IF f.idx THEN "index"
    ELSE IF f.other THEN "nonempty"
    ELSE "empty"

\* C8: init_index raises DirectoryAlreadyExists exactly for a file, for a
\* non-empty directory without the index, and for an existing index with
\* clear false; otherwise it succeeds and the root is a directory holding a
\* new index under the name.
C8_CreateIndexTable ==
    lastInit.called =>
        LET c == RootClass(lastInit.before)
            fails == \/ c = "file"
                     \/ c = "nonempty"
                     \/ (c = "index" /\ ~lastInit.clear)
        IN  /\ lastInit.result = (IF fails THEN "DirectoryAlreadyExists" ELSE "ok")
            /\ lastInit.result = "ok" =>
                   /\ fs.kind = "dir"
                   /\ fs.idx
                   /\ fs.gen = 0
                   /\ fs.other = lastInit.before.other

\* C8 witness: init_index with clear replaced an existing index.
C8_Witness ==
    /\ lastInit.called
    /\ lastInit.clear
    /\ RootClass(lastInit.before) = "index"
    /\ lastInit.before.gen = 1
    /\ lastInit.result = "ok"
    /\ fs.gen = 0

\* C9: a request builds at most one writer; the writer property returns the
\* handle cached by the first access on every later access.
C9_WriterMemoized ==
    \A r \in Requests :
        /\ stats[r].created <= 1
        /\ (seen.req = r /\ seen.prop = "writer") =>
               /\ seen.writer = stats[r].w_first
               /\ seen.writer = ctx[r].whoosh_writer
               /\ stats[r].created = 1

\* C9 witness: a later access has returned the cached writer.
C9_Witness ==
    \E r \in Requests :
        /\ seen.req = r
        /\ seen.prop = "writer"
        /\ seen.cached
        /\ seen.writer = stats[r].w_first
        /\ stats[r].created = 1

\* Positions of pooled wrappers that hold a searcher.
Pooled == {<<p, i>> \in Pools \X (1..MaxSearchers) :
              /\ i <= Len(managers[p].search_pool)
              /\ managers[p].search_pool[i] # NoneSearcher}

PooledAt(x) == managers[x[1]].search_pool[x[2]]

\* C10: a searcher instance is never in a pool while a live request is bound
\* to it, never in two pooled wrappers, and never bound to two live requests.
C10_ExclusiveOwnership ==
    /\ \A r, q \in Holders :
           r # q => ctx[r].whoosh_searcher.id # ctx[q].whoosh_searcher.id
    /\ \A r \in Holders, x \in Pooled :
           ctx[r].whoosh_searcher.id # PooledAt(x).id
    /\ \A x, y \in Pooled : x # y => PooledAt(x).id # PooledAt(y).id

\* C10 witness: two requests hold searchers at the same time.
C10_Witness ==
    \E r, q \in Requests :
        /\ r # q
        /\ Holds(r)
        /\ Holds(q)
        /\ stats[r].origin = stats[q].origin
        /\ ctx[r].whoosh_searcher.id # ctx[q].whoosh_searcher.id

C12_ReleaseNeverBlocks ==
    \A r \in Requests : pc[r] = "put" => can_put(managers[tgt[r]])

\* A step of Whoosh.teardown for request r: the hasattr test, and the return
\* of put_searcher.
TeardownStep(r) ==
    \/ pc[r] = "run" /\ pc'[r] \in {"put", "done"}
    \/ pc[r] = "put" /\ pc'[r] = "done"

\* C14: teardown neither commits nor cancels: across every step of a
\* request's teardown its writer keeps its status (none built, open,
\* committed) and the index keeps its generation, so a request that ended
\* with an open writer leaves it open.
C14_TeardownLeavesWriter ==
    /\ [][\A r \in Requests :
             TeardownStep(r) => (wstatus'[r] = wstatus[r] /\ fs' = fs)]_vars
    /\ [](\A r \in Requests : wstatus[r] \in {"none", "open", "committed"})

\* C14 witness: one request was torn down with its writer still open (after
\* returning a searcher), another after committing.
C14_Witness ==
    \E r, q \in Requests :
        /\ pc[r] = "done"
        /\ wstatus[r] = "open"
        /\ \E x \in Pooled : PooledAt(x).id = <<r, 1>>
        /\ pc[q] = "done"
        /\ wstatus[q] = "committed"

\* C15: init_app on an application whose configuration does not set the
\* pool minimum leaves WHOOSH_SEARCHER_MIN in the configuration with value 1.
C15_DefaultPoolMinimum ==
    [][(app'.teardown_appcontext + app'.teardown_request
            > app.teardown_appcontext + app.teardown_request
        /\ "WHOOSH_SEARCHER_MIN" \notin DOMAIN app.config)
       => /\ "WHOOSH_SEARCHER_MIN" \in DOMAIN app'.config
          /\ app'.config["WHOOSH_SEARCHER_MIN"] = 1]_vars

\* C16: an application has at most one manager (one pool) however the first
\* accesses interleave; every pending get and put is bound to that pool, and
\* a put goes to the pool its searcher was taken from.
C16_SinglePoolPerApplication ==
    /\ Len(managers) <= 1
    /\ \A r \in Requests :
           /\ pc[r] \in {"get", "put"} => tgt[r] = whoosh
           /\ pc[r] = "put" => tgt[r] = stats[r].origin

\* C17: an init_index that raises DirectoryAlreadyExists leaves the root
\* path exactly as it was; the checks fire in the order file, non-empty
\* directory without the index, existing index without clear; and the index
\* is created only by a call on which none of the three fired.
C17_CreateIndexNoSideEffects ==
    lastInit.called =>
        LET c == RootClass(lastInit.before)
        IN  /\ lastInit.result = "DirectoryAlreadyExists" =>
                   /\ fs = lastInit.before
                   /\ lastInit.check \in {1, 2, 3}
            /\ lastInit.check = 1 <=> c = "file"
            /\ lastInit.check = 2 <=> c = "nonempty"
            /\ lastInit.check = 3 <=> (c = "index" /\ ~lastInit.clear)
            /\ fs # lastInit.before =>
                   (lastInit.result = "ok" /\ lastInit.check = 0)

\* C17 witness: init_index without clear was refused on an existing index,
\* whose committed generation is still there.
C17_Witness ==
    /\ lastInit.called
    /\ lastInit.result = "DirectoryAlreadyExists"
    /\ lastInit.check = 3
    /\ fs = lastInit.before
    /\ fs.idx
    /\ fs.gen = 1

\* C18: a get hands out the most recently put searcher that no get has
\* taken since; in particular a get that follows a put with no put in
\* between pops the searcher just put, not a wrapper never used.
C18_LifoReuse ==
    [][\A r \in Requests :
          (pc[r] = "get" /\ pc'[r] = "run" /\ released # <<>>) =>
              seen'.popped = released[Len(released)]]_vars

\* C19: a get that fails after the pop propagates the error and loses no
\* slot: across the failing call the pool's slots plus the searchers checked
\* out of it (which teardown puts back) number what they did before.
C19_FailedAcquireKeepsSlot ==
    [][\A r \in Requests, p \in Pools :
          (pc[r] = "get" /\ tgt[r] = p /\ seen'.prop = "error" /\ seen'.req = r) =>
              /\ pc'[r] = "run"
              /\ Len(managers'[p].search_pool) + Cardinality(CheckedOutFrom(p)')
                     = Len(managers[p].search_pool) + Cardinality(CheckedOutFrom(p))]_vars

\* C20: a pool is built with every slot unrealized; in every pool the
\* wrappers holding a searcher lie above those holding none; no put returns
\* a wrapper without a searcher; and index.searcher() has been called at most
\* as often as the largest number of searchers held at the same time (so at
\* most maximum times, and once when requests never overlap).
C20_LazyRealizationBounded ==
    /\ usage.views = 0 =>
           \A p \in Pools :
               managers[p].search_pool = initialize_searcher_pool(searcher_max)
    /\ \A p \in Pools :
           \A i, j \in 1..Len(managers[p].search_pool) :
               (i < j /\ managers[p].search_pool[i] # NoneSearcher)
                   => managers[p].search_pool[j] # NoneSearcher
    /\ \A r \in Requests : pc[r] = "put" => ctx[r].whoosh_searcher # NoneSearcher
    /\ usage.views <= usage.peak
    /\ usage.views <= searcher_max

====
